---- MODULE Spec2Model ----
(***************************************************************************)
(* Buddy Core runtime: the main loop and the wake-word dispatcher of       *)
(* main.py, the interruptible speech controller of audio_controller.py     *)
(* and the streaming keyword listener of wake_word_listener.py.            *)
(*                                                                         *)
(*   Spec       main loop + dispatcher thread sharing cmd_queue            *)
(*   SpecAudio  AudioController.speak / stop_speech called by three threads*)
(*   SpecNB     WakeWordListener.detected_nonblocking fed by its stream    *)
(*   SpecBoot   the threads main() starts: play_intro's check thread,      *)
(*              play_full_instructions' skip listener, the dispatcher      *)
(*   SpecRun    WakeWordListener.run_once, the blocking path of detected() *)
(*   SpecSpeak  speak / stop_speech called by main and dispatcher only,    *)
(*              with the history of who started which session              *)
(***************************************************************************)
EXTENDS Integers, Sequences, FiniteSets, TLC

VARIABLES
    \* ---- main.py: main() and wake_word_thread() ----
    cmd_queue,      \* queue.Queue shared by dispatcher (put) and main (get)
    running_flag,   \* running_flag["ok"]
    current_mode,   \* "Normal" | "Hazard", local of main()
    mainpc,         \* position of the main thread
    command,        \* main()'s local `command`
    dpc,            \* position of the dispatcher thread
    cmd,            \* wake_word_thread()'s local `cmd`
    enqueued,       \* history: every command put on cmd_queue, in order
    hlog,           \* history: one record per command handled by main
    lastStep,       \* history: what the latest handler / periodic step did
    \* ---- audio_controller.py: AudioController ----
    current_process,\* self.current_process: None or a piper process id
    running,        \* piper processes that have not exited
    fed,            \* piper processes whose stdin has been closed
    apc,            \* per thread: position inside speak / stop_speech
    waitOn,         \* per thread: process the thread is blocked on in wait()
    playOf,         \* per thread: process whose stdout feeds the thread's aplay
    stopInfo,       \* per thread: history of the current stop_speech call
    own,            \* per thread: history (SpecSpeak), the session its speak started
    \* ---- wake_word_listener.py: WakeWordListener ----
    porcupine,      \* self.porcupine: None or an engine handle
    stream,         \* self.stream: None or a started InputStream
    audio_queue,    \* self.audio_queue: chunks put by audio_callback
    buffer,         \* self.buffer: int16 samples not yet cut into frames
    mic,            \* float samples the microphone has still to deliver
    consumed,       \* history: float samples taken off audio_queue so far
    frames,         \* history: frames handed to porcupine.process, in order
    everTrue,       \* history: some detected_nonblocking call returned True
    lastCall,       \* history: what the latest detected_nonblocking call did
    nbpc,           \* position inside detected_nonblocking
    engines,        \* keyword engines created and not yet deleted
    streams,        \* capture streams opened and not yet closed
    \* ---- main.py: play_intro, play_full_instructions, thread starts ----
    bootpc,         \* position of the main thread from play_intro on
    detected_flag,  \* detected_flag["heard"] of play_intro
    chkpc,          \* position of play_intro's check_wakeword thread
    stop_flag,      \* stop_flag["skip"] of play_full_instructions
    skpc,           \* position of the skip_listener thread
    line,           \* index of the instruction line the for loop is at
    wwpc,           \* position of the wake_word_thread started by main()
    \* ---- wake_word_listener.py: run_once ----
    runpc,          \* position inside run_once
    shadow,         \* history: a second listener polled with the same chunks
    speak_alert,    \* self.speak_alert: the method of the class or a no-op
    original_speak_alert  \* detected()'s local that keeps the replaced value

mainVars  == <<cmd_queue, running_flag, current_mode, mainpc, command, dpc, cmd,
               enqueued, hlog, lastStep>>
audioVars == <<current_process, running, fed, apc, waitOn, playOf, stopInfo, own>>
nbVars    == <<porcupine, stream, audio_queue, buffer, mic, consumed, frames,
               everTrue, lastCall, nbpc, engines, streams>>
bootVars  == <<bootpc, detected_flag, chkpc, stop_flag, skpc, line, wwpc>>
runVars   == <<runpc, shadow, speak_alert, original_speak_alert>>
vars      == <<mainVars, audioVars, nbVars, bootVars, runVars>>

None == "None"

\* self.current_process = None: the handle that names no process
NoProc == 0

-----------------------------------------------------------------------------
(* Bounds of the model *)

\* commands the dispatcher enqueues in one run
MaxCmds == 3
\* labels one detect_frame call returns
MaxLabels == 2
\* piper processes that exist at one time
MaxProc == 2
\* samples the microphone delivers in one run
MaxSamples == 5
\* engines one listener may hold undeleted at a time
MaxEngines == 2

\* samples in one chunk handed to audio_callback
MaxChunk == 3
\* porcupine.frame_length, the samples in one engine frame
FrameLength == 2
\* float amplitudes are multiples of 1/SampleDen
SampleDen == 4

-----------------------------------------------------------------------------
(* Text: strings are sequences of characters so that `in` and .lower()     *)
(* are computed, not assumed.                                              *)

sChangeMode == <<"c","h","a","n","g","e"," ","m","o","d","e">>
sWhatIsIt   == <<"w","h","a","t"," ","i","s"," ","i","t">>
sShutDown   == <<"s","h","u","t"," ","d","o","w","n">>
sSystemShutdown == <<"s","y","s","t","e","m"," ","s","h","u","t","d","o","w","n">>
sSystemShutDown == <<"s","y","s","t","e","m"," ","s","h","u","t"," ","d","o","w","n">>

\* config.py: EXIT_PHRASES
EXIT_PHRASES == <<sShutDown, sSystemShutdown, sSystemShutDown>>

\* config.py: HARZARDOUS_OBJECTS
HARZARDOUS_OBJECTS == <<"person", "bicycle", "car", "bus", "truck">>

\* transcripts the recognizer may return (already stripped by transcribe_audio)
Transcripts ==
    { <<"C","h","a","n","g","e"," ","m","o","d","e",".">>,
      <<"W","h","a","t"," ","i","s"," ","i","t","?">>,
      <<"S","h","u","t"," ","d","o","w","n",".">>,
      <<"W","h","a","t"," ","i","s"," ","i","t","?"," ",
        "S","h","u","t"," ","d","o","w","n"," ","c","h","a","n","g","e"," ","m","o","d","e">>,
      << >> }

\* str.lower() on one character
LowerChar(c) ==
    CASE c = "C" -> "c"
      [] c = "W" -> "w"
      [] c = "S" -> "s"
      [] OTHER   -> c

\* str.lower()
Lower(s) == [i \in 1..Len(s) |-> LowerChar(s[i])]

\* Python's `p in s` on strings: p occurs in s as a contiguous substring
Contains(s, p) ==
    \E i \in 0..(Len(s) - Len(p)) : SubSeq(s, i + 1, i + Len(p)) = p

\* a test that wants the command to be an exit phrase, not to contain one
IsExitWhole(c) == \E k \in 1..Len(EXIT_PHRASES) : c = EXIT_PHRASES[k]

\* any(phrase in command for phrase in EXIT_PHRASES)
IsExit(c) == \E k \in 1..Len(EXIT_PHRASES) : Contains(c, EXIT_PHRASES[k])

\* `obj in HARZARDOUS_OBJECTS`
IsHazardous(obj) == \E k \in 1..Len(HARZARDOUS_OBJECTS) : HARZARDOUS_OBJECTS[k] = obj

-----------------------------------------------------------------------------
(* ObjectDetector.detect_frame: (annotated_frame, detected_labels)        *)

DetLabels == {"person", "chair"}

LabelLists == UNION { [1..n -> DetLabels] : n \in 0..MaxLabels }

\* the two failure returns give (None, []); a success gives the frame and
\* the (possibly empty) label list
DetectResults ==
    { [frame |-> None, detected |-> << >>] } \cup
    { [frame |-> "img", detected |-> l] : l \in LabelLists }

\* a filter that keeps every label
HazardFilterAll(detected) == detected

\* [obj for obj in detected if obj in HARZARDOUS_OBJECTS]
RECURSIVE HazardFilter(_)
HazardFilter(detected) ==
    IF detected = << >> THEN << >>
    ELSE IF IsHazardous(Head(detected))
         THEN <<Head(detected)>> \o HazardFilter(Tail(detected))
         ELSE HazardFilter(Tail(detected))

\* the texts main() passes to audio.speak
Say(kind, arg) == [kind |-> kind, arg |-> arg]

NoStep == [op |-> "none", mode |-> "Normal", flag |-> TRUE, detect |-> << >>, spoke |-> << >>]

-----------------------------------------------------------------------------
(* Initial state *)

Threads == {"main", "disp", "skip"}

\* the threads that barge in: wake_word_thread and skip_listener
Bargers == {"disp", "skip"}

Procs == 1..MaxProc

\* history of the stop_speech call a thread is in: whether no session was
\* active when it was entered, and whether a speak has started a session
\* since
NoStop == [idle |-> FALSE, newer |-> FALSE]

\* history of one detected_nonblocking call: its return value, whether
\* samples of earlier calls were still buffered, the frames it processed
NoCall == [ret |-> FALSE, carried |-> FALSE, nframes |-> 0, took |-> FALSE]

InitMain ==
    /\ cmd_queue = << >>
    /\ running_flag = TRUE
    /\ current_mode = "Normal"
    /\ mainpc = "announce"
    /\ command = << >>
    /\ dpc = "loop"
    /\ cmd = << >>
    /\ enqueued = << >>
    /\ hlog = << >>
    /\ lastStep = NoStep

InitAudio ==
    /\ current_process = NoProc
    /\ running = {}
    /\ fed = {}
    /\ apc = [t \in Threads |-> "idle"]
    /\ waitOn = [t \in Threads |-> NoProc]
    /\ playOf = [t \in Threads |-> NoProc]
    /\ stopInfo = [t \in Threads |-> NoStop]
    /\ own = [t \in Threads |-> NoProc]

InitNB ==
    /\ porcupine = None
    /\ stream = None
    /\ audio_queue = << >>
    /\ buffer = << >>
    /\ mic = << >>
    /\ consumed = << >>
    /\ frames = << >>
    /\ everTrue = FALSE
    /\ lastCall = NoCall
    /\ nbpc = "idle"
    /\ engines = 0
    /\ streams = 0

InitBoot ==
    /\ bootpc = "intro"
    /\ detected_flag = FALSE
    /\ chkpc = "none"
    /\ stop_flag = FALSE
    /\ skpc = "none"
    /\ line = 1
    /\ wwpc = "none"

\* the second listener is new as well: empty buffer, nothing processed
NoShadow == [buffer |-> << >>, frames |-> << >>, ret |-> FALSE]

InitRun ==
    /\ runpc = "idle"
    /\ shadow = NoShadow
    /\ speak_alert = "method"
    /\ original_speak_alert = "method"

Init == InitMain /\ InitAudio /\ InitNB /\ InitBoot /\ InitRun

-----------------------------------------------------------------------------
(* main.py: wake_word_thread (the dispatcher)                              *)

\* a dispatcher that also takes a waiting command off the queue
DispLoopDrains ==
    /\ dpc = "loop"
    /\ dpc' = IF running_flag THEN "listen" ELSE "done"
    /\ cmd_queue' = IF cmd_queue # << >> THEN Tail(cmd_queue) ELSE cmd_queue
    /\ UNCHANGED <<running_flag, current_mode, mainpc, command, cmd,
                   enqueued, hlog, lastStep>>

\* while running_flag["ok"]:
DispLoop ==
    /\ dpc = "loop"
    /\ dpc' = IF running_flag THEN "listen" ELSE "done"
    /\ UNCHANGED <<cmd_queue, running_flag, current_mode, mainpc, command, cmd,
                   enqueued, hlog, lastStep>>

\* if listener.detected(): True once the wake word is heard
DispDetected ==
    /\ dpc = "listen"
    /\ Len(enqueued) < MaxCmds
    /\ dpc' = "stop"
    /\ UNCHANGED <<cmd_queue, running_flag, current_mode, mainpc, command, cmd,
                   enqueued, hlog, lastStep>>

\* listener.detected() caught an exception and returned False
DispDetectError ==
    /\ dpc = "listen"
    /\ dpc' = "loop"
    /\ UNCHANGED <<cmd_queue, running_flag, current_mode, mainpc, command, cmd,
                   enqueued, hlog, lastStep>>

\* a dispatcher that runs a detection of its own after the barge-in
DispStopDetects ==
    /\ dpc = "stop"
    /\ dpc' = "transcribe"
    /\ lastStep' = [op |-> "ondemand", mode |-> current_mode, flag |-> running_flag,
                    detect |-> <<[frame |-> None, detected |-> << >>]>>,
                    spoke |-> << >>]
    /\ UNCHANGED <<cmd_queue, running_flag, current_mode, mainpc, command, cmd,
                   enqueued, hlog>>

\* audio.stop_speech()
DispStop ==
    /\ dpc = "stop"
    /\ dpc' = "transcribe"
    /\ UNCHANGED <<cmd_queue, running_flag, current_mode, mainpc, command, cmd,
                   enqueued, hlog, lastStep>>

\* cmd = audio.speak_text_and_transcribe().lower()
DispTranscribe ==
    /\ dpc = "transcribe"
    /\ \E t \in Transcripts : cmd' = Lower(t)
    /\ dpc' = "put"
    /\ UNCHANGED <<cmd_queue, running_flag, current_mode, mainpc, command,
                   enqueued, hlog, lastStep>>

\* record_audio or transcribe_audio raises inside speak_text_and_transcribe
\* (no capture device, unreadable recording, recognizer error): neither that
\* method nor wake_word_thread has a handler, so the exception ends the
\* thread before cmd_queue.put
DispTranscribeFails ==
    /\ dpc = "transcribe"
    /\ dpc' = "dead"
    /\ UNCHANGED <<cmd_queue, running_flag, current_mode, mainpc, command, cmd,
                   enqueued, hlog, lastStep>>

\* queue.Queue.put
QueuePut(q, c) == Append(q, c)

\* cmd_queue.put(cmd)
DispPut ==
    /\ dpc = "put"
    /\ cmd_queue' = QueuePut(cmd_queue, cmd)
    /\ enqueued' = Append(enqueued, cmd)
    /\ dpc' = "loop"
    /\ UNCHANGED <<running_flag, current_mode, mainpc, command, cmd, hlog, lastStep>>

-----------------------------------------------------------------------------
(* main.py: main(), from the initial announcement on                       *)

\* current_mode = "Normal"; announce_mode(audio, current_mode)
MainAnnounce ==
    /\ mainpc = "announce"
    /\ lastStep' = [op |-> "announce", mode |-> current_mode, flag |-> running_flag,
                    detect |-> << >>, spoke |-> <<Say("mode", <<current_mode>>)>>]
    /\ mainpc' = "outer"
    /\ UNCHANGED <<cmd_queue, running_flag, current_mode, command, dpc, cmd,
                   enqueued, hlog>>

\* an outer loop that never tests the flag
MainOuterForever ==
    /\ mainpc = "outer"
    /\ mainpc' = "inner"
    /\ UNCHANGED <<cmd_queue, running_flag, current_mode, command, dpc, cmd,
                   enqueued, hlog, lastStep>>

\* while running_flag["ok"]:
MainOuter ==
    /\ mainpc = "outer"
    /\ mainpc' = IF running_flag THEN "inner" ELSE "done"
    /\ UNCHANGED <<cmd_queue, running_flag, current_mode, command, dpc, cmd,
                   enqueued, hlog, lastStep>>

\* while not cmd_queue.empty():
MainInner ==
    /\ mainpc = "inner"
    /\ mainpc' = IF cmd_queue # << >> THEN "get" ELSE "periodic"
    /\ UNCHANGED <<cmd_queue, running_flag, current_mode, command, dpc, cmd,
                   enqueued, hlog, lastStep>>

\* a get that takes the newest item
QueueGetLifo(q) == [item |-> q[Len(q)], rest |-> SubSeq(q, 1, Len(q) - 1)]

\* a get that leaves the item in the queue
QueueGetPeek(q) == [item |-> Head(q), rest |-> q]

\* queue.Queue.get: the item and the rest of the queue
QueueGet(q) == [item |-> Head(q), rest |-> Tail(q)]

\* command = cmd_queue.get()   (blocks while the queue is empty)
MainGet ==
    /\ mainpc = "get"
    /\ cmd_queue # << >>
    /\ command' = QueueGet(cmd_queue).item
    /\ cmd_queue' = QueueGet(cmd_queue).rest
    /\ mainpc' = "handle"
    /\ UNCHANGED <<running_flag, current_mode, dpc, cmd, enqueued, hlog, lastStep>>

\* a toggle that only ever enters Hazard
ToggleStuck(m) == "Hazard"

\* "Hazard" if current_mode == "Normal" else "Normal"
Toggle(m) == IF m = "Normal" THEN "Hazard" ELSE "Normal"

\* a break that only ends the handling of this command
AfterExitInner == "inner"

\* where the `break` of the exit branch leaves the main thread: it ends the
\* inner while only, so control falls through to the periodic detection
AfterExitBreak == "periodic"

\* an exit branch that announces the shutdown but leaves the flag set
HandleExitKeepsRunning ==
    /\ IsExit(command)
    /\ mainpc' = AfterExitBreak
    /\ lastStep' = [op |-> "exit", mode |-> current_mode, flag |-> running_flag,
                    detect |-> << >>, spoke |-> <<Say("shutdown", << >>)>>]
    /\ hlog' = Append(hlog, [text |-> command, branch |-> "exit",
                             before |-> current_mode, after |-> current_mode])
    /\ UNCHANGED <<running_flag, current_mode>>

\* if any(phrase in command for phrase in EXIT_PHRASES): ... break
HandleExit ==
    /\ IsExit(command)
    /\ running_flag' = FALSE
    /\ mainpc' = AfterExitBreak
    /\ lastStep' = [op |-> "exit", mode |-> current_mode, flag |-> running_flag,
                    detect |-> << >>, spoke |-> <<Say("shutdown", << >>)>>]
    /\ hlog' = Append(hlog, [text |-> command, branch |-> "exit",
                             before |-> current_mode, after |-> current_mode])
    /\ UNCHANGED current_mode

\* a 'change mode' branch that is tested before the exit phrases
HandleChangeModeFirst ==
    /\ Contains(command, sChangeMode)
    /\ current_mode' = Toggle(current_mode)
    /\ mainpc' = "inner"
    /\ lastStep' = [op |-> "toggle", mode |-> current_mode, flag |-> running_flag,
                    detect |-> << >>,
                    spoke |-> <<Say("mode", <<Toggle(current_mode)>>)>>]
    /\ hlog' = Append(hlog, [text |-> command, branch |-> "toggle",
                             before |-> current_mode, after |-> Toggle(current_mode)])
    /\ UNCHANGED running_flag

\* elif "change mode" in command:
HandleChangeMode ==
    /\ ~IsExit(command)
    /\ Contains(command, sChangeMode)
    /\ current_mode' = Toggle(current_mode)
    /\ mainpc' = "inner"
    /\ lastStep' = [op |-> "toggle", mode |-> current_mode, flag |-> running_flag,
                    detect |-> << >>,
                    spoke |-> <<Say("mode", <<Toggle(current_mode)>>)>>]
    /\ hlog' = Append(hlog, [text |-> command, branch |-> "toggle",
                             before |-> current_mode, after |-> Toggle(current_mode)])
    /\ UNCHANGED running_flag

\* an on-demand branch that does not look at the mode
HandleWhatIsItAnyMode ==
    /\ ~IsExit(command)
    /\ ~Contains(command, sChangeMode)
    /\ Contains(command, sWhatIsIt)
    /\ \E r \in DetectResults :
          lastStep' = [op |-> "ondemand", mode |-> current_mode, flag |-> running_flag,
                       detect |-> <<r>>,
                       spoke |-> IF r.frame = None
                                 THEN <<Say("nothing", << >>)>>
                                 ELSE <<Say("objects", r.detected)>>]
    /\ mainpc' = "inner"
    /\ hlog' = Append(hlog, [text |-> command, branch |-> "ondemand",
                             before |-> current_mode, after |-> current_mode])
    /\ UNCHANGED <<running_flag, current_mode>>

\* elif "what is it" in command and current_mode == "Hazard":
HandleWhatIsIt ==
    /\ ~IsExit(command)
    /\ ~Contains(command, sChangeMode)
    /\ Contains(command, sWhatIsIt) /\ current_mode = "Hazard"
    /\ \E r \in DetectResults :
          lastStep' = [op |-> "ondemand", mode |-> current_mode, flag |-> running_flag,
                       detect |-> <<r>>,
                       spoke |-> IF r.frame = None
                                 THEN <<Say("nothing", << >>)>>
                                 ELSE <<Say("objects", r.detected)>>]
    /\ mainpc' = "inner"
    /\ hlog' = Append(hlog, [text |-> command, branch |-> "ondemand",
                             before |-> current_mode, after |-> current_mode])
    /\ UNCHANGED <<running_flag, current_mode>>

\* the on-demand detector.detect_frame() raises (model.predict, the OUTPUT
\* folder, the image write): nothing catches it and main() ends
HandleWhatIsItRaises ==
    /\ ~IsExit(command)
    /\ ~Contains(command, sChangeMode)
    /\ Contains(command, sWhatIsIt) /\ current_mode = "Hazard"
    /\ lastStep' = [op |-> "raise", mode |-> current_mode, flag |-> running_flag,
                    detect |-> << >>, spoke |-> << >>]
    /\ mainpc' = "crashed"
    /\ hlog' = Append(hlog, [text |-> command, branch |-> "raise",
                             before |-> current_mode, after |-> current_mode])
    /\ UNCHANGED <<running_flag, current_mode>>

\* a fall-through that answers a command it does not know
HandleIgnoreAnswers ==
    /\ ~IsExit(command)
    /\ ~Contains(command, sChangeMode)
    /\ ~(Contains(command, sWhatIsIt) /\ current_mode = "Hazard")
    /\ mainpc' = "inner"
    /\ lastStep' = [op |-> "ignore", mode |-> current_mode, flag |-> running_flag,
                    detect |-> << >>, spoke |-> <<Say("nothing", << >>)>>]
    /\ hlog' = Append(hlog, [text |-> command, branch |-> "ignore",
                             before |-> current_mode, after |-> current_mode])
    /\ UNCHANGED <<running_flag, current_mode>>

\* no branch matches: the command is dropped
HandleIgnore ==
    /\ ~IsExit(command)
    /\ ~Contains(command, sChangeMode)
    /\ ~(Contains(command, sWhatIsIt) /\ current_mode = "Hazard")
    /\ mainpc' = "inner"
    /\ lastStep' = [op |-> "ignore", mode |-> current_mode, flag |-> running_flag,
                    detect |-> << >>, spoke |-> << >>]
    /\ hlog' = Append(hlog, [text |-> command, branch |-> "ignore",
                             before |-> current_mode, after |-> current_mode])
    /\ UNCHANGED <<running_flag, current_mode>>

\* the if / elif chain applied to the command just taken
MainHandle ==
    /\ mainpc = "handle"
    /\ \/ HandleExit
       \/ HandleChangeMode
       \/ HandleWhatIsIt
       \/ HandleWhatIsItRaises
       \/ HandleIgnore
    /\ UNCHANGED <<cmd_queue, command, dpc, cmd, enqueued>>

\* what the periodic branch speaks for a detection result in a mode
PeriodicSpeech(mode, r) ==
    IF mode = "Normal"
    THEN IF r.frame # None THEN <<Say("detected", r.detected)>> ELSE << >>
    ELSE IF HazardFilter(r.detected) # << >>
         THEN <<Say("warning", HazardFilter(r.detected))>>
         ELSE << >>

\* annotated_frame, detected = detector.detect_frame(); announce by mode
MainPeriodic ==
    /\ mainpc = "periodic"
    /\ \E r \in DetectResults :
          lastStep' = [op |-> "periodic", mode |-> current_mode, flag |-> running_flag,
                       detect |-> <<r>>, spoke |-> PeriodicSpeech(current_mode, r)]
    /\ mainpc' = "sleep"
    /\ UNCHANGED <<cmd_queue, running_flag, current_mode, command, dpc, cmd,
                   enqueued, hlog>>

\* the periodic detector.detect_frame() raises past its two guarded
\* returns: nothing catches it and main() ends
MainPeriodicRaises ==
    /\ mainpc = "periodic"
    /\ lastStep' = [op |-> "raise", mode |-> current_mode, flag |-> running_flag,
                    detect |-> << >>, spoke |-> << >>]
    /\ mainpc' = "crashed"
    /\ UNCHANGED <<cmd_queue, running_flag, current_mode, command, dpc, cmd,
                   enqueued, hlog>>

\* time.sleep(DETECTION_INTERVAL)
MainSleep ==
    /\ mainpc = "sleep"
    /\ mainpc' = "outer"
    /\ UNCHANGED <<cmd_queue, running_flag, current_mode, command, dpc, cmd,
                   enqueued, hlog, lastStep>>

\* steps of the main loop and the dispatcher leave the other components alone
Next ==
    \/ DispLoop /\ UNCHANGED <<audioVars, nbVars, bootVars, runVars>>
    \/ DispDetected /\ UNCHANGED <<audioVars, nbVars, bootVars, runVars>>
    \/ DispDetectError /\ UNCHANGED <<audioVars, nbVars, bootVars, runVars>>
    \/ DispStop /\ UNCHANGED <<audioVars, nbVars, bootVars, runVars>>
    \/ DispTranscribe /\ UNCHANGED <<audioVars, nbVars, bootVars, runVars>>
    \/ DispTranscribeFails /\ UNCHANGED <<audioVars, nbVars, bootVars, runVars>>
    \/ DispPut /\ UNCHANGED <<audioVars, nbVars, bootVars, runVars>>
    \/ MainAnnounce /\ UNCHANGED <<audioVars, nbVars, bootVars, runVars>>
    \/ MainOuter /\ UNCHANGED <<audioVars, nbVars, bootVars, runVars>>
    \/ MainInner /\ UNCHANGED <<audioVars, nbVars, bootVars, runVars>>
    \/ MainGet /\ UNCHANGED <<audioVars, nbVars, bootVars, runVars>>
    \/ MainHandle /\ UNCHANGED <<audioVars, nbVars, bootVars, runVars>>
    \/ MainPeriodic /\ UNCHANGED <<audioVars, nbVars, bootVars, runVars>>
    \/ MainPeriodicRaises /\ UNCHANGED <<audioVars, nbVars, bootVars, runVars>>
    \/ MainSleep /\ UNCHANGED <<audioVars, nbVars, bootVars, runVars>>

Spec == Init /\ [][Next]_vars

-----------------------------------------------------------------------------
(* audio_controller.py: AudioController.speak and stop_speech.  Every      *)
(* `self.current_process` in the code is a separate read of the shared     *)
(* field, so each statement is a step of its own.                          *)

\* closed-stdin marks are kept only for processes that still exist (running,
\* or named by the handle): nothing can observe the others
KeepFed(f, r, h) == f \cap (r \cup {h})

\* a process id no handle refers to and that is not running
FreeProcs == { p \in Procs : /\ p \notin running
                             /\ current_process # p
                             /\ \A t \in Threads : waitOn[t] # p /\ playOf[t] # p }

Goto(t, pos) == apc' = [apc EXCEPT ![t] = pos]

\* speak is entered: by the main thread whenever it is between two calls
\* (announce_mode, the handlers, the periodic announcement), by a barging
\* thread from speak_text_and_transcribe after its stop_speech
AtSpeak(t) == apc[t] = "sp_popen" \/ (t = "main" /\ apc[t] = "idle")

\* self.current_process = subprocess.Popen(["piper", ...])
SpeakPopen(t) ==
    /\ AtSpeak(t)
    /\ FreeProcs # {}
    /\ LET p == CHOOSE q \in FreeProcs : \A r \in FreeProcs : q <= r IN
          /\ running' = running \cup {p}
          /\ current_process' = p
          /\ fed' = KeepFed(fed, running', p) \ {p}
    /\ stopInfo' = [u \in Threads |->
                      IF apc[u] \in {"st_poll", "st_term", "st_sleep", "st_clear"}
                      THEN [stopInfo[u] EXCEPT !.newer = TRUE]
                      ELSE stopInfo[u]]
    /\ Goto(t, "sp_aplay")
    /\ UNCHANGED <<waitOn, playOf>>

\* Popen raises (piper missing, fork failure): except branch
SpeakPopenFails(t) ==
    /\ AtSpeak(t)
    /\ Goto(t, "sp_exc")
    /\ UNCHANGED <<current_process, running, fed, waitOn, playOf, stopInfo>>

\* play = subprocess.Popen(["aplay", ...], stdin=self.current_process.stdout)
SpeakAplay(t) ==
    /\ apc[t] = "sp_aplay"
    /\ IF current_process = NoProc
       THEN Goto(t, "sp_exc") /\ UNCHANGED playOf
       ELSE Goto(t, "sp_write") /\ playOf' = [playOf EXCEPT ![t] = current_process]
    /\ UNCHANGED <<current_process, running, fed, waitOn, stopInfo>>

\* the Popen of aplay raises (player missing, fork failure): except branch,
\* with the piper process already started
SpeakAplayFails(t) ==
    /\ apc[t] = "sp_aplay"
    /\ Goto(t, "sp_exc")
    /\ UNCHANGED <<current_process, running, fed, waitOn, playOf, stopInfo>>

\* self.current_process.stdin.write(text.encode("utf-8")): AttributeError on
\* None, ValueError on a stdin already closed, otherwise buffered
SpeakWrite(t) ==
    /\ apc[t] = "sp_write"
    /\ IF current_process = NoProc \/ current_process \in fed
       THEN Goto(t, "sp_exc")
       ELSE Goto(t, "sp_close")
    /\ UNCHANGED <<current_process, running, fed, waitOn, playOf, stopInfo>>

\* self.current_process.stdin.close(): flushes; BrokenPipeError when the
\* process is gone, a no-op on a stdin already closed
SpeakClose(t) ==
    /\ apc[t] = "sp_close"
    /\ IF current_process = NoProc
       THEN Goto(t, "sp_exc") /\ UNCHANGED fed
       ELSE IF current_process \in fed
       THEN Goto(t, "sp_wait") /\ UNCHANGED fed
       ELSE IF current_process \notin running
       THEN Goto(t, "sp_exc") /\ UNCHANGED fed
       ELSE Goto(t, "sp_wait") /\ fed' = fed \cup {current_process}
    /\ UNCHANGED <<current_process, running, waitOn, playOf, stopInfo>>

\* self.current_process.wait(): the handle is read, then the thread blocks
SpeakWait(t) ==
    /\ apc[t] = "sp_wait"
    /\ IF current_process = NoProc
       THEN Goto(t, "sp_exc") /\ UNCHANGED waitOn
       ELSE Goto(t, "sp_waiting") /\ waitOn' = [waitOn EXCEPT ![t] = current_process]
    /\ UNCHANGED <<current_process, running, fed, playOf, stopInfo>>

\* wait() returns once that process has exited, then play.wait() returns
\* once aplay has: aplay ends when the piper feeding it has exited
SpeakWaited(t) ==
    /\ apc[t] = "sp_waiting"
    /\ waitOn[t] \notin running
    /\ playOf[t] \notin running
    /\ waitOn' = [waitOn EXCEPT ![t] = NoProc]
    /\ playOf' = [playOf EXCEPT ![t] = NoProc]
    /\ Goto(t, "sp_clear")
    /\ UNCHANGED <<current_process, running, fed, stopInfo>>

\* self.current_process = None   (end of the try block)
SpeakClear(t) ==
    /\ apc[t] = "sp_clear"
    /\ current_process' = NoProc
    /\ fed' = KeepFed(fed, running, current_process')
    /\ Goto(t, "idle")
    /\ UNCHANGED <<running, waitOn, playOf, stopInfo>>

\* an except branch that returns without touching the handle
SpeakExceptKeeps(t) ==
    /\ apc[t] = "sp_exc"
    /\ playOf' = [playOf EXCEPT ![t] = NoProc]
    /\ Goto(t, "idle")
    /\ UNCHANGED <<current_process, running, fed, waitOn, stopInfo>>

\* except Exception: print(...); self.current_process = None
SpeakExcept(t) ==
    /\ apc[t] = "sp_exc"
    /\ current_process' = NoProc
    /\ fed' = KeepFed(fed, running, current_process')
    /\ playOf' = [playOf EXCEPT ![t] = NoProc]
    /\ Goto(t, "idle")
    /\ UNCHANGED <<running, waitOn, stopInfo>>

\* a piper process ends by itself: after its stdin was closed it plays to
\* the end; when no handle refers to it its pipes are closed
ProcExit(p) ==
    /\ p \in running
    /\ \/ p \in fed
       \/ current_process # p /\ \A t \in Threads : waitOn[t] # p
    /\ running' = running \ {p}
    /\ fed' = KeepFed(fed, running', current_process)
    /\ UNCHANGED <<current_process, apc, waitOn, playOf, stopInfo>>

\* a session counts as active while its piper process has not exited
Active(h) == h # NoProc /\ h \in running

\* stop_speech is entered (wake word heard by the dispatcher or the skip
\* listener) and `if self.current_process` is evaluated
StopEnter(t) ==
    /\ t \in Bargers
    /\ apc[t] = "idle"
    /\ stopInfo' = [stopInfo EXCEPT ![t] = [idle |-> ~Active(current_process),
                                            newer |-> FALSE]]
    /\ Goto(t, IF current_process = NoProc THEN "st_clear" ELSE "st_poll")
    /\ UNCHANGED <<current_process, running, fed, waitOn, playOf>>

\* a check that does not poll: any handle counts as an active session
StopPollNoCheck(t) ==
    /\ apc[t] = "st_poll"
    /\ Goto(t, IF current_process = NoProc THEN "st_clear" ELSE "st_term")
    /\ UNCHANGED <<current_process, running, fed, waitOn, playOf, stopInfo>>

\* `and self.current_process.poll() is None`; an AttributeError on a handle
\* that became None goes to the except branch, which clears the handle too
StopPoll(t) ==
    /\ apc[t] = "st_poll"
    /\ Goto(t, IF current_process = NoProc THEN "st_clear"
               ELSE IF current_process \in running THEN "st_term"
               ELSE "st_clear")
    /\ UNCHANGED <<current_process, running, fed, waitOn, playOf, stopInfo>>

\* the processes a terminate() or kill() on handle h ends
Signalled(h) == {h}

\* self.current_process.terminate(): the signal is advisory, the process
\* may end at once or live on until kill()
StopTerminate(t) ==
    /\ apc[t] = "st_term"
    /\ IF current_process = NoProc
       THEN /\ Goto(t, "st_clear")
            /\ UNCHANGED <<running, fed>>
       ELSE /\ Goto(t, "st_sleep")
            /\ \/ running' = running \ Signalled(current_process)
               \/ UNCHANGED running
            /\ fed' = KeepFed(fed, running', current_process)
    /\ UNCHANGED <<current_process, waitOn, playOf, stopInfo>>

\* time.sleep(0.05) is over; self.current_process.kill()
StopKill(t) ==
    /\ apc[t] = "st_sleep"
    /\ IF current_process = NoProc
       THEN UNCHANGED <<running, fed>>
       ELSE /\ running' = running \ Signalled(current_process)
            /\ fed' = KeepFed(fed, running', current_process)
    /\ Goto(t, "st_clear")
    /\ UNCHANGED <<current_process, waitOn, playOf, stopInfo>>

\* the handle stop_speech leaves behind
Cleared == NoProc

\* self.current_process = None, on the normal path and in the except
\* branch; the caller goes on to speak_text_and_transcribe, which speaks
StopClear(t) ==
    /\ apc[t] = "st_clear"
    /\ current_process' = Cleared
    /\ fed' = KeepFed(fed, running, current_process')
    /\ stopInfo' = [stopInfo EXCEPT ![t] = NoStop]
    /\ Goto(t, "sp_popen")
    /\ UNCHANGED <<running, waitOn, playOf>>

\* history of the sessions: the thread whose step was the Popen of piper
\* owns the process it started for as long as it is inside that speak and
\* the process has not exited
OwnUpdate ==
    own' = [t \in Threads |->
              IF AtSpeak(t) /\ apc'[t] = "sp_aplay" THEN current_process'
              ELSE IF apc'[t] # "idle" /\ own[t] \in running' THEN own[t]
              ELSE NoProc]

NextAudio ==
    \/ \E t \in Threads : SpeakPopen(t) /\ UNCHANGED <<own, mainVars, nbVars, bootVars, runVars>>
    \/ \E t \in Threads : SpeakPopenFails(t) /\ UNCHANGED <<own, mainVars, nbVars, bootVars, runVars>>
    \/ \E t \in Threads : SpeakAplay(t) /\ UNCHANGED <<own, mainVars, nbVars, bootVars, runVars>>
    \/ \E t \in Threads : SpeakAplayFails(t) /\ UNCHANGED <<own, mainVars, nbVars, bootVars, runVars>>
    \/ \E t \in Threads : SpeakWrite(t) /\ UNCHANGED <<own, mainVars, nbVars, bootVars, runVars>>
    \/ \E t \in Threads : SpeakClose(t) /\ UNCHANGED <<own, mainVars, nbVars, bootVars, runVars>>
    \/ \E t \in Threads : SpeakWait(t) /\ UNCHANGED <<own, mainVars, nbVars, bootVars, runVars>>
    \/ \E t \in Threads : SpeakWaited(t) /\ UNCHANGED <<own, mainVars, nbVars, bootVars, runVars>>
    \/ \E t \in Threads : SpeakClear(t) /\ UNCHANGED <<own, mainVars, nbVars, bootVars, runVars>>
    \/ \E t \in Threads : SpeakExcept(t) /\ UNCHANGED <<own, mainVars, nbVars, bootVars, runVars>>
    \/ \E p \in Procs : ProcExit(p) /\ UNCHANGED <<own, mainVars, nbVars, bootVars, runVars>>
    \/ \E t \in Threads : StopEnter(t) /\ UNCHANGED <<own, mainVars, nbVars, bootVars, runVars>>
    \/ \E t \in Threads : StopPoll(t) /\ UNCHANGED <<own, mainVars, nbVars, bootVars, runVars>>
    \/ \E t \in Threads : StopTerminate(t) /\ UNCHANGED <<own, mainVars, nbVars, bootVars, runVars>>
    \/ \E t \in Threads : StopKill(t) /\ UNCHANGED <<own, mainVars, nbVars, bootVars, runVars>>
    \/ \E t \in Threads : StopClear(t) /\ UNCHANGED <<own, mainVars, nbVars, bootVars, runVars>>

SpecAudio == Init /\ [][NextAudio]_vars

\* the threads of a run in which play_full_instructions was not entered:
\* the main thread and wake_word_thread
Speakers == {"main", "disp"}

\* the same steps taken by these two threads only, with the history of who
\* started which session
NextSpeak ==
    \/ \E t \in Speakers : SpeakPopen(t) /\ OwnUpdate
          /\ UNCHANGED <<mainVars, nbVars, bootVars, runVars>>
    \/ \E t \in Speakers : SpeakPopenFails(t) /\ OwnUpdate
          /\ UNCHANGED <<mainVars, nbVars, bootVars, runVars>>
    \/ \E t \in Speakers : SpeakAplay(t) /\ OwnUpdate
          /\ UNCHANGED <<mainVars, nbVars, bootVars, runVars>>
    \/ \E t \in Speakers : SpeakAplayFails(t) /\ OwnUpdate
          /\ UNCHANGED <<mainVars, nbVars, bootVars, runVars>>
    \/ \E t \in Speakers : SpeakWrite(t) /\ OwnUpdate
          /\ UNCHANGED <<mainVars, nbVars, bootVars, runVars>>
    \/ \E t \in Speakers : SpeakClose(t) /\ OwnUpdate
          /\ UNCHANGED <<mainVars, nbVars, bootVars, runVars>>
    \/ \E t \in Speakers : SpeakWait(t) /\ OwnUpdate
          /\ UNCHANGED <<mainVars, nbVars, bootVars, runVars>>
    \/ \E t \in Speakers : SpeakWaited(t) /\ OwnUpdate
          /\ UNCHANGED <<mainVars, nbVars, bootVars, runVars>>
    \/ \E t \in Speakers : SpeakClear(t) /\ OwnUpdate
          /\ UNCHANGED <<mainVars, nbVars, bootVars, runVars>>
    \/ \E t \in Speakers : SpeakExcept(t) /\ OwnUpdate
          /\ UNCHANGED <<mainVars, nbVars, bootVars, runVars>>
    \/ \E p \in Procs : ProcExit(p) /\ OwnUpdate
          /\ UNCHANGED <<mainVars, nbVars, bootVars, runVars>>
    \/ \E t \in Speakers : StopEnter(t) /\ OwnUpdate
          /\ UNCHANGED <<mainVars, nbVars, bootVars, runVars>>
    \/ \E t \in Speakers : StopPoll(t) /\ OwnUpdate
          /\ UNCHANGED <<mainVars, nbVars, bootVars, runVars>>
    \/ \E t \in Speakers : StopTerminate(t) /\ OwnUpdate
          /\ UNCHANGED <<mainVars, nbVars, bootVars, runVars>>
    \/ \E t \in Speakers : StopKill(t) /\ OwnUpdate
          /\ UNCHANGED <<mainVars, nbVars, bootVars, runVars>>
    \/ \E t \in Speakers : StopClear(t) /\ OwnUpdate
          /\ UNCHANGED <<mainVars, nbVars, bootVars, runVars>>

SpecSpeak == Init /\ [][NextSpeak]_vars

-----------------------------------------------------------------------------
(* wake_word_listener.py: WakeWordListener.detected_nonblocking and the    *)
(* stream callback that feeds it.  A float sample is the integer n that    *)
(* stands for the amplitude n / SampleDen.                                 *)

\* the scale of (data.flatten() * 32768)
Scale == 32768

\* np.int16 holds values modulo 2^16
Int16Mod == 65536

\* float -> integer conversion truncates toward zero
Trunc(a, b) == IF a >= 0 THEN a \div b ELSE -((-a) \div b)

\* .astype(np.int16) on one scaled sample: truncate, then keep 16 bits
ToInt16(n) ==
    ((Trunc(n * Scale, SampleDen) + (Int16Mod \div 2)) % Int16Mod) - (Int16Mod \div 2)

\* audio_data = (data.flatten() * 32768).astype(np.int16)
Convert(data) == [i \in 1..Len(data) |-> ToInt16(data[i])]

\* amplitudes the microphone delivers: -1/SampleDen, silence, full scale
Samples == {-1, 0, SampleDen}

\* the frame the keyword engine answers with a match
KeywordFrame == [i \in 1..FrameLength |-> IF i = 1 THEN ToInt16(SampleDen) ELSE ToInt16(-1)]

\* porcupine.process(frame): the keyword index, -1 for no match; it depends
\* on the frame alone
Process(frame) == IF frame = KeywordFrame THEN 0 ELSE -1

\* frame = self.buffer[:frame_length]
FirstFrame(buf) == SubSeq(buf, 1, FrameLength)

\* a slice that drops one sample too many
DropFrameLossy(buf) == SubSeq(buf, FrameLength + 2, Len(buf))

\* self.buffer = self.buffer[frame_length:]
DropFrame(buf) == SubSeq(buf, FrameLength + 1, Len(buf))

\* while len(self.buffer) >= frame_length: ... break on a match.
\* Gives the buffer left, the frames processed and the detected flag.
RECURSIVE CutFrames(_, _)
CutFrames(buf, seen) ==
    IF Len(buf) >= FrameLength
    THEN IF Process(FirstFrame(buf)) >= 0
         THEN [buffer |-> DropFrame(buf), seen |-> Append(seen, FirstFrame(buf)),
               detected |-> TRUE]
         ELSE CutFrames(DropFrame(buf), Append(seen, FirstFrame(buf)))
    ELSE [buffer |-> buf, seen |-> seen, detected |-> FALSE]

\* sounddevice calls audio_callback with the next chunk: audio_queue.put
AudioCallback ==
    /\ stream # None
    /\ mic # << >>
    /\ \E k \in 1..MaxChunk :
          /\ k <= Len(mic)
          /\ audio_queue' = Append(audio_queue, SubSeq(mic, 1, k))
          /\ mic' = SubSeq(mic, k + 1, Len(mic))
    /\ UNCHANGED <<porcupine, stream, buffer, consumed, frames, everTrue, lastCall,
                   nbpc, engines, streams>>

\* an entry that creates engine and stream and resets queue and buffer on
\* every call
NBEnterAlways ==
    /\ nbpc = "idle"
    /\ porcupine' = "engine"
    /\ engines' = IF engines < 2 THEN engines + 1 ELSE engines
    /\ audio_queue' = << >>
    /\ stream' = "started"
    /\ streams' = IF streams < 2 THEN streams + 1 ELSE streams
    /\ buffer' = << >>
    /\ nbpc' = "get"
    /\ UNCHANGED <<mic, consumed, frames, everTrue, lastCall>>

\* detected_nonblocking is entered; if not self.porcupine: create the engine,
\* reset the queue, start the stream, reset the buffer
NBEnter ==
    /\ nbpc = "idle"
    /\ IF porcupine = None
       THEN /\ porcupine' = "engine"
            /\ engines' = engines + 1
            /\ audio_queue' = << >>
            /\ stream' = "started"
            /\ streams' = streams + 1
            /\ buffer' = << >>
       ELSE UNCHANGED <<porcupine, engines, audio_queue, stream, streams, buffer>>
    /\ nbpc' = "get"
    /\ UNCHANGED <<mic, consumed, frames, everTrue, lastCall>>

\* a timeout that throws the partial frame away
NBTimeoutResets ==
    /\ nbpc = "get"
    /\ audio_queue = << >>
    /\ lastCall' = NoCall
    /\ buffer' = << >>
    /\ nbpc' = "idle"
    /\ UNCHANGED <<porcupine, stream, audio_queue, mic, consumed, frames,
                   everTrue, engines, streams>>

\* data = self.audio_queue.get(timeout=timeout) raised queue.Empty:
\* return False
NBTimeout ==
    /\ nbpc = "get"
    /\ audio_queue = << >>
    /\ lastCall' = NoCall
    /\ nbpc' = "idle"
    /\ UNCHANGED <<porcupine, stream, audio_queue, buffer, mic, consumed, frames,
                   everTrue, engines, streams>>

\* a chunk was there: convert it, append it, cut frames, return detected
NBProcess ==
    /\ nbpc = "get"
    /\ audio_queue # << >>
    /\ LET data == Head(audio_queue)
           r == CutFrames(buffer \o Convert(data), << >>)
       IN /\ audio_queue' = Tail(audio_queue)
          /\ consumed' = consumed \o data
          /\ buffer' = r.buffer
          /\ frames' = frames \o r.seen
          /\ everTrue' = (everTrue \/ r.detected)
          /\ lastCall' = [ret |-> r.detected, carried |-> buffer # << >>,
                          nframes |-> Len(r.seen), took |-> TRUE]
    /\ nbpc' = "idle"
    /\ UNCHANGED <<porcupine, stream, mic, engines, streams>>

\* every microphone recording of at most MaxSamples samples
Recordings == UNION { [1..n -> Samples] : n \in 0..MaxSamples }

InitFeed ==
    /\ InitMain /\ InitAudio /\ InitBoot /\ InitRun
    /\ porcupine = None
    /\ stream = None
    /\ audio_queue = << >>
    /\ buffer = << >>
    /\ mic \in Recordings
    /\ consumed = << >>
    /\ frames = << >>
    /\ everTrue = FALSE
    /\ lastCall = NoCall
    /\ nbpc = "idle"
    /\ engines = 0
    /\ streams = 0

NextNB ==
    \/ AudioCallback /\ UNCHANGED <<mainVars, audioVars, bootVars, runVars>>
    \/ NBEnter /\ UNCHANGED <<mainVars, audioVars, bootVars, runVars>>
    \/ NBTimeout /\ UNCHANGED <<mainVars, audioVars, bootVars, runVars>>
    \/ NBProcess /\ UNCHANGED <<mainVars, audioVars, bootVars, runVars>>

SpecNB == InitFeed /\ [][NextNB]_vars

-----------------------------------------------------------------------------
(* wake_word_listener.py: WakeWordListener.run_once, the blocking path     *)
(* behind detected().  Its stream lives in a with block; the engine is     *)
(* deleted by the statements after the block.                              *)

\* the scale of (data.flatten() * 32768) in run_once
RunScale == 32768

\* .astype(np.int16) on one sample scaled by run_once
RunToInt16(n) ==
    ((Trunc(n * RunScale, SampleDen) + (Int16Mod \div 2)) % Int16Mod) - (Int16Mod \div 2)

\* a conversion that scales by 32767
RunConvertLow(data) ==
    [i \in 1..Len(data) |->
        ((Trunc(data[i] * (RunScale - 1), SampleDen) + (Int16Mod \div 2)) % Int16Mod)
            - (Int16Mod \div 2)]

\* audio_data = (data.flatten() * 32768).astype(np.int16)
RunConvert(data) == [i \in 1..Len(data) |-> RunToInt16(data[i])]

\* while len(self.buffer) >= frame_length: take the first frame, drop it
\* from the buffer, process it, break on a match
RECURSIVE RunCutFrames(_, _)
RunCutFrames(buf, seen) ==
    IF Len(buf) >= FrameLength
    THEN LET frame == SubSeq(buf, 1, FrameLength)
             rest == SubSeq(buf, FrameLength + 1, Len(buf))
         IN IF Process(frame) >= 0
            THEN [buffer |-> rest, seen |-> Append(seen, frame), detected |-> TRUE]
            ELSE RunCutFrames(rest, Append(seen, frame))
    ELSE [buffer |-> buf, seen |-> seen, detected |-> FALSE]

\* the second listener: one detected_nonblocking call that gets this chunk
ShadowPoll(data) ==
    LET r == CutFrames(shadow.buffer \o Convert(data), << >>)
    IN [buffer |-> r.buffer, frames |-> shadow.frames \o r.seen, ret |-> r.detected]

\* the second listener when the engine raises on the first frame it is given
ShadowRaise(data) ==
    LET b == shadow.buffer \o Convert(data)
    IN [buffer |-> DropFrame(b), frames |-> Append(shadow.frames, FirstFrame(b)),
        ret |-> FALSE]

\* detected() is called: speak_alert is kept in original_speak_alert and
\* replaced by a no-op, then run_once is entered:
\* self.porcupine = pvporcupine.create(...), whatever self.porcupine held
RunEnter ==
    /\ runpc = "idle"
    /\ engines < MaxEngines
    /\ porcupine' = "engine"
    /\ engines' = engines + 1
    /\ runpc' = "open"
    /\ original_speak_alert' = speak_alert
    /\ speak_alert' = "noop"
    /\ UNCHANGED <<stream, audio_queue, buffer, mic, consumed, frames, everTrue,
                   lastCall, nbpc, streams, shadow>>

\* detected() is called and pvporcupine.create raises: run_once is left
\* before anything is assigned, detected() returns False from its except
\* branch
RunEnterFails ==
    /\ runpc = "idle"
    /\ original_speak_alert' = speak_alert
    /\ speak_alert' = "noop"
    /\ UNCHANGED <<nbVars, runpc, shadow>>

\* with sd.InputStream(...): the stream is opened and started
RunOpen ==
    /\ runpc = "open"
    /\ streams' = streams + 1
    /\ runpc' = "get"
    /\ UNCHANGED <<porcupine, stream, audio_queue, buffer, mic, consumed, frames,
                   everTrue, lastCall, nbpc, engines, shadow,
                   speak_alert, original_speak_alert>>

\* sd.InputStream raises (no input device): run_once is left by the
\* exception, past the cleanup statements
RunOpenFails ==
    /\ runpc = "open"
    /\ runpc' = "idle"
    /\ UNCHANGED <<porcupine, stream, audio_queue, buffer, mic, consumed, frames,
                   everTrue, lastCall, nbpc, engines, streams, shadow,
                   speak_alert, original_speak_alert>>

\* the open stream calls audio_callback with the next chunk
RunCallback ==
    /\ runpc = "get"
    /\ mic # << >>
    /\ \E k \in 1..MaxChunk :
          /\ k <= Len(mic)
          /\ audio_queue' = Append(audio_queue, SubSeq(mic, 1, k))
          /\ mic' = SubSeq(mic, k + 1, Len(mic))
    /\ UNCHANGED <<porcupine, stream, buffer, consumed, frames, everTrue, lastCall,
                   nbpc, engines, streams, runpc, shadow,
                   speak_alert, original_speak_alert>>

\* self.audio_queue.get(timeout=0.5) raised queue.Empty: continue
RunTimeout ==
    /\ runpc = "get"
    /\ audio_queue = << >>
    /\ UNCHANGED <<nbVars, runVars>>

\* a chunk was there: convert it, append it, cut frames; on a match the
\* loop and the with block end (the stream is closed)
RunProcess ==
    /\ runpc = "get"
    /\ audio_queue # << >>
    /\ LET data == Head(audio_queue)
           r == RunCutFrames(buffer \o RunConvert(data), << >>)
       IN /\ audio_queue' = Tail(audio_queue)
          /\ consumed' = consumed \o data
          /\ buffer' = r.buffer
          /\ frames' = frames \o r.seen
          /\ everTrue' = (everTrue \/ r.detected)
          /\ lastCall' = [ret |-> r.detected, carried |-> buffer # << >>,
                          nframes |-> Len(r.seen), took |-> TRUE]
          /\ runpc' = IF r.detected THEN "cleanup" ELSE "get"
          /\ streams' = IF r.detected THEN streams - 1 ELSE streams
          /\ shadow' = ShadowPoll(data)
    /\ UNCHANGED <<porcupine, stream, mic, nbpc, engines,
                   speak_alert, original_speak_alert>>

\* self.porcupine.process(frame) raises on the first frame of the chunk:
\* the with block closes the stream, the exception leaves run_once past
\* the cleanup statements
RunProcessRaises ==
    /\ runpc = "get"
    /\ audio_queue # << >>
    /\ LET data == Head(audio_queue)
           b == buffer \o RunConvert(data)
       IN /\ Len(b) >= FrameLength
          /\ audio_queue' = Tail(audio_queue)
          /\ consumed' = consumed \o data
          /\ buffer' = SubSeq(b, FrameLength + 1, Len(b))
          /\ frames' = Append(frames, SubSeq(b, 1, FrameLength))
          /\ lastCall' = [ret |-> FALSE, carried |-> buffer # << >>,
                          nframes |-> 1, took |-> TRUE]
          /\ shadow' = ShadowRaise(data)
    /\ streams' = streams - 1
    /\ runpc' = "idle"
    /\ UNCHANGED <<porcupine, stream, mic, everTrue, nbpc, engines,
                   speak_alert, original_speak_alert>>

\* if self.porcupine: self.porcupine.delete(); self.porcupine = None
RunCleanup ==
    /\ runpc = "cleanup"
    /\ engines' = IF porcupine # None THEN engines - 1 ELSE engines
    /\ porcupine' = None
    /\ speak_alert' = original_speak_alert
    /\ runpc' = "idle"
    /\ UNCHANGED <<stream, audio_queue, buffer, mic, consumed, frames, everTrue,
                   lastCall, nbpc, streams, shadow, original_speak_alert>>

NextRun ==
    \/ RunEnter /\ UNCHANGED <<mainVars, audioVars, bootVars>>
    \/ RunEnterFails /\ UNCHANGED <<mainVars, audioVars, bootVars>>
    \/ RunOpen /\ UNCHANGED <<mainVars, audioVars, bootVars>>
    \/ RunOpenFails /\ UNCHANGED <<mainVars, audioVars, bootVars>>
    \/ RunCallback /\ UNCHANGED <<mainVars, audioVars, bootVars>>
    \/ RunTimeout /\ UNCHANGED <<mainVars, audioVars, bootVars>>
    \/ RunProcess /\ UNCHANGED <<mainVars, audioVars, bootVars>>
    \/ RunProcessRaises /\ UNCHANGED <<mainVars, audioVars, bootVars>>
    \/ RunCleanup /\ UNCHANGED <<mainVars, audioVars, bootVars>>

SpecRun == InitFeed /\ [][NextRun]_vars

-----------------------------------------------------------------------------
(* main.py: the bootstrap of main(): play_intro with its check_wakeword    *)
(* thread, play_full_instructions with its skip_listener thread, and the   *)
(* start of wake_word_thread.  No thread is joined; the three-second       *)
(* windows of play_intro end at a moment the model does not fix.           *)

\* len(instructions)
NumInstructions == 8

\* play_intro: speak, play_beep, detected_flag = {"heard": False},
\* thread.start()
BootIntro ==
    /\ bootpc = "intro"
    /\ detected_flag' = FALSE
    /\ chkpc' = "loop"
    /\ bootpc' = "intro_wait"
    /\ UNCHANGED <<stop_flag, skpc, line, wwpc>>

\* if detected_flag["heard"]: return True   -> play_full_instructions
BootIntroHeard ==
    /\ bootpc = "intro_wait"
    /\ detected_flag
    /\ bootpc' = "instructions"
    /\ UNCHANGED <<detected_flag, chkpc, stop_flag, skpc, line, wwpc>>

\* the loop `while time.time() - start_time < 3` has run out: return False
BootIntroTimeout ==
    /\ bootpc = "intro_wait"
    /\ bootpc' = "start_disp"
    /\ UNCHANGED <<detected_flag, chkpc, stop_flag, skpc, line, wwpc>>

\* check_wakeword: the while condition holds, listener.detected_nonblocking
\* is entered
CheckLoopCall ==
    /\ chkpc = "loop"
    /\ ~detected_flag
    /\ chkpc' = "call"
    /\ UNCHANGED <<bootpc, detected_flag, stop_flag, skpc, line, wwpc>>

\* check_wakeword: three seconds have passed (or the flag is set): the
\* thread ends
CheckLoopEnd ==
    /\ chkpc = "loop"
    /\ chkpc' = "done"
    /\ UNCHANGED <<bootpc, detected_flag, stop_flag, skpc, line, wwpc>>

\* what a detected_nonblocking call that returns has done to the listener
\* main() created: if not self.porcupine: engine, queue, stream and buffer
\* are set up and the stream is started; nothing on this path stops it
CheckOpened ==
    /\ IF porcupine = None
       THEN /\ engines < MaxEngines
            /\ porcupine' = "engine"
            /\ engines' = engines + 1
            /\ audio_queue' = << >>
            /\ stream' = "started"
            /\ streams' = streams + 1
            /\ buffer' = << >>
       ELSE UNCHANGED <<porcupine, engines, audio_queue, stream, streams, buffer>>
    /\ UNCHANGED <<mic, consumed, frames, everTrue, lastCall, nbpc>>

\* detected_nonblocking returned True: detected_flag["heard"] = True; break
CheckCallTrue ==
    /\ chkpc = "call"
    /\ CheckOpened
    /\ detected_flag' = TRUE
    /\ chkpc' = "done"
    /\ UNCHANGED <<bootpc, stop_flag, skpc, line, wwpc>>

\* detected_nonblocking returned False: time.sleep(0.05), next pass
CheckCallFalse ==
    /\ chkpc = "call"
    /\ CheckOpened
    /\ chkpc' = "loop"
    /\ UNCHANGED <<bootpc, detected_flag, stop_flag, skpc, line, wwpc>>

\* detected_nonblocking raised (engine or stream cannot be created): the
\* thread ends
CheckCallRaises ==
    /\ chkpc = "call"
    /\ chkpc' = "dead"
    /\ UNCHANGED <<bootpc, detected_flag, stop_flag, skpc, line, wwpc>>

\* play_full_instructions: stop_flag = {"skip": False}; the skip_listener
\* thread is started
BootInstrStart ==
    /\ bootpc = "instructions"
    /\ stop_flag' = FALSE
    /\ skpc' = "loop"
    /\ line' = 1
    /\ bootpc' = "instr_for"
    /\ UNCHANGED <<detected_flag, chkpc, wwpc>>

\* a loop head that never looks at the skip flag
BootInstrLineDeaf ==
    /\ bootpc = "instr_for"
    /\ bootpc' = IF line > NumInstructions THEN "instr_end" ELSE "instr_speak"
    /\ UNCHANGED <<detected_flag, chkpc, stop_flag, skpc, line, wwpc>>

\* for line in instructions: if stop_flag["skip"]: break
BootInstrLine ==
    /\ bootpc = "instr_for"
    /\ bootpc' = IF line > NumInstructions \/ stop_flag THEN "instr_end"
                 ELSE "instr_speak"
    /\ UNCHANGED <<detected_flag, chkpc, stop_flag, skpc, line, wwpc>>

\* audio.speak(line): the line is started; the loop goes to the next one
BootInstrSpeak ==
    /\ bootpc = "instr_speak"
    /\ line' = line + 1
    /\ bootpc' = "instr_for"
    /\ UNCHANGED <<detected_flag, chkpc, stop_flag, skpc, wwpc>>

\* if stop_flag["skip"]: audio.speak("Skipping instructions.")
\* else: audio.speak("End of instructions.")
BootInstrEnd ==
    /\ bootpc = "instr_end"
    /\ bootpc' = IF stop_flag THEN "say_skipping" ELSE "say_end"
    /\ UNCHANGED <<detected_flag, chkpc, stop_flag, skpc, line, wwpc>>

\* the closing message has been spoken: play_full_instructions returns
BootInstrReturn ==
    /\ bootpc \in {"say_skipping", "say_end"}
    /\ bootpc' = "start_disp"
    /\ UNCHANGED <<detected_flag, chkpc, stop_flag, skpc, line, wwpc>>

\* threading.Thread(target=wake_word_thread, ...).start(); main() goes on
\* to announce the mode and run its loop
BootStartDispatcher ==
    /\ bootpc = "start_disp"
    /\ wwpc' = "loop"
    /\ bootpc' = "main_loop"
    /\ UNCHANGED <<detected_flag, chkpc, stop_flag, skpc, line>>

\* the main loop handles an exit command: running_flag["ok"] = False; the
\* rest of the iteration (periodic detection, sleep) is still to run
BootShutdown ==
    /\ bootpc = "main_loop"
    /\ running_flag' = FALSE
    /\ bootpc' = "main_exit"
    /\ UNCHANGED <<cmd_queue, current_mode, mainpc, command, dpc, cmd, enqueued,
                   hlog, lastStep>>
    /\ UNCHANGED <<detected_flag, chkpc, stop_flag, skpc, line, wwpc>>

\* what the end of the process does to a thread started with daemon=True
AtExit(pc) == IF pc \in {"none", "done", "dead"} THEN pc ELSE "killed"

\* main() returns and the interpreter exits: every daemon thread that is
\* still alive ends with it
BootMainDone ==
    /\ bootpc = "main_exit"
    /\ bootpc' = "main_done"
    /\ chkpc' = AtExit(chkpc)
    /\ skpc' = AtExit(skpc)
    /\ wwpc' = AtExit(wwpc)
    /\ UNCHANGED <<detected_flag, stop_flag, line>>

\* skip_listener: while not stop_flag["skip"]:
SkipLoop ==
    /\ skpc = "loop"
    /\ skpc' = IF stop_flag THEN "done" ELSE "listen"
    /\ UNCHANGED <<bootpc, detected_flag, chkpc, stop_flag, line, wwpc>>

\* if listener.detected(): the wake word was heard on the thread's own
\* listener
SkipDetected ==
    /\ skpc = "listen"
    /\ skpc' = "stop"
    /\ UNCHANGED <<bootpc, detected_flag, chkpc, stop_flag, line, wwpc>>

\* listener.detected() returned False; time.sleep(0.1)
SkipDetectError ==
    /\ skpc = "listen"
    /\ skpc' = "loop"
    /\ UNCHANGED <<bootpc, detected_flag, chkpc, stop_flag, line, wwpc>>

\* audio.stop_speech()
SkipStop ==
    /\ skpc = "stop"
    /\ skpc' = "transcribe"
    /\ UNCHANGED <<bootpc, detected_flag, chkpc, stop_flag, line, wwpc>>

\* command = audio.speak_text_and_transcribe().lower();
\* if "skip it" in command: stop_flag["skip"] = True; time.sleep(0.1)
SkipTranscribe ==
    /\ skpc = "transcribe"
    /\ \E said \in BOOLEAN : stop_flag' = (stop_flag \/ said)
    /\ skpc' = "loop"
    /\ UNCHANGED <<bootpc, detected_flag, chkpc, line, wwpc>>

\* speak_text_and_transcribe raises: the thread ends
SkipTranscribeFails ==
    /\ skpc = "transcribe"
    /\ skpc' = "dead"
    /\ UNCHANGED <<bootpc, detected_flag, chkpc, stop_flag, line, wwpc>>

\* wake_word_thread: while running_flag["ok"]:
BootDispLoop ==
    /\ wwpc = "loop"
    /\ wwpc' = IF running_flag THEN "listen" ELSE "done"
    /\ UNCHANGED <<bootpc, detected_flag, chkpc, stop_flag, skpc, line>>

\* the fields of the listener that the threads of main() leave alone
listenerData == <<audio_queue, buffer, mic, consumed, frames, everTrue, lastCall, nbpc>>

\* listener.detected() -> run_once on the listener play_intro used: the
\* engine is created over whatever self.porcupine held and run_once's own
\* stream is opened
BootDispOpen ==
    /\ wwpc = "listen"
    /\ engines < MaxEngines
    /\ porcupine' = "engine"
    /\ engines' = engines + 1
    /\ streams' = streams + 1
    /\ wwpc' = "listening"
    /\ UNCHANGED <<bootpc, detected_flag, chkpc, stop_flag, skpc, line>>
    /\ UNCHANGED <<stream, listenerData>>

\* run_once heard the wake word: its with block closes its stream, the
\* engine is deleted, self.porcupine = None, and detected() returns True
BootDispDetected ==
    /\ wwpc = "listening"
    /\ streams' = streams - 1
    /\ engines' = engines - 1
    /\ porcupine' = None
    /\ wwpc' = "serve"
    /\ UNCHANGED <<bootpc, detected_flag, chkpc, stop_flag, skpc, line>>
    /\ UNCHANGED <<stream, listenerData>>

\* listener.detected() returned False: run_once raised, before it had
\* anything open or inside its with block, which then closes its stream
BootDispDetectError ==
    /\ wwpc \in {"listen", "listening"}
    /\ streams' = IF wwpc = "listening" THEN streams - 1 ELSE streams
    /\ wwpc' = "loop"
    /\ UNCHANGED <<bootpc, detected_flag, chkpc, stop_flag, skpc, line>>
    /\ UNCHANGED <<porcupine, stream, engines, listenerData>>

\* audio.stop_speech(); speak_text_and_transcribe(); cmd_queue.put(cmd)
BootDispServe ==
    /\ wwpc = "serve"
    /\ wwpc' = "loop"
    /\ UNCHANGED <<bootpc, detected_flag, chkpc, stop_flag, skpc, line>>

\* speak_text_and_transcribe raises: the thread ends
BootDispServeFails ==
    /\ wwpc = "serve"
    /\ wwpc' = "dead"
    /\ UNCHANGED <<bootpc, detected_flag, chkpc, stop_flag, skpc, line>>

NextBoot ==
    \/ BootIntro /\ UNCHANGED <<mainVars, audioVars, nbVars, runVars>>
    \/ BootIntroHeard /\ UNCHANGED <<mainVars, audioVars, nbVars, runVars>>
    \/ BootIntroTimeout /\ UNCHANGED <<mainVars, audioVars, nbVars, runVars>>
    \/ CheckLoopCall /\ UNCHANGED <<mainVars, audioVars, nbVars, runVars>>
    \/ CheckLoopEnd /\ UNCHANGED <<mainVars, audioVars, nbVars, runVars>>
    \/ CheckCallTrue /\ UNCHANGED <<mainVars, audioVars, runVars>>
    \/ CheckCallFalse /\ UNCHANGED <<mainVars, audioVars, runVars>>
    \/ CheckCallRaises /\ UNCHANGED <<mainVars, audioVars, nbVars, runVars>>
    \/ BootInstrStart /\ UNCHANGED <<mainVars, audioVars, nbVars, runVars>>
    \/ BootInstrLine /\ UNCHANGED <<mainVars, audioVars, nbVars, runVars>>
    \/ BootInstrSpeak /\ UNCHANGED <<mainVars, audioVars, nbVars, runVars>>
    \/ BootInstrEnd /\ UNCHANGED <<mainVars, audioVars, nbVars, runVars>>
    \/ BootInstrReturn /\ UNCHANGED <<mainVars, audioVars, nbVars, runVars>>
    \/ BootStartDispatcher /\ UNCHANGED <<mainVars, audioVars, nbVars, runVars>>
    \/ BootShutdown /\ UNCHANGED <<audioVars, nbVars, runVars>>
    \/ BootMainDone /\ UNCHANGED <<mainVars, audioVars, nbVars, runVars>>
    \/ SkipLoop /\ UNCHANGED <<mainVars, audioVars, nbVars, runVars>>
    \/ SkipDetected /\ UNCHANGED <<mainVars, audioVars, nbVars, runVars>>
    \/ SkipDetectError /\ UNCHANGED <<mainVars, audioVars, nbVars, runVars>>
    \/ SkipStop /\ UNCHANGED <<mainVars, audioVars, nbVars, runVars>>
    \/ SkipTranscribe /\ UNCHANGED <<mainVars, audioVars, nbVars, runVars>>
    \/ SkipTranscribeFails /\ UNCHANGED <<mainVars, audioVars, nbVars, runVars>>
    \/ BootDispLoop /\ UNCHANGED <<mainVars, audioVars, nbVars, runVars>>
    \/ BootDispOpen /\ UNCHANGED <<mainVars, audioVars, runVars>>
    \/ BootDispDetected /\ UNCHANGED <<mainVars, audioVars, runVars>>
    \/ BootDispDetectError /\ UNCHANGED <<mainVars, audioVars, runVars>>
    \/ BootDispServe /\ UNCHANGED <<mainVars, audioVars, nbVars, runVars>>
    \/ BootDispServeFails /\ UNCHANGED <<mainVars, audioVars, nbVars, runVars>>

SpecBoot == Init /\ [][NextBoot]_vars

-----------------------------------------------------------------------------
(* Properties of the main loop and the dispatcher (Spec)                   *)

\* the texts of the handled commands, in handling order
HandledTexts == [i \in 1..Len(hlog) |-> hlog[i].text]

\* the command main() holds between cmd_queue.get() and its handling
Held == IF mainpc = "handle" THEN <<command>> ELSE << >>

IsPrefix(a, b) == Len(a) <= Len(b) /\ SubSeq(b, 1, Len(a)) = a

IsToggleCmd(c) == Contains(c, sChangeMode) /\ ~IsExit(c)

\* C2: commands are handled strictly in the order they were enqueued, each
\* under the mode the commands before it left; 'change mode', 'what is it',
\* 'shut down' from Normal gives Hazard, then the on-demand detection under
\* Hazard, then the cleared running flag
C2_FifoOrder ==
    /\ IsPrefix(HandledTexts \o Held, enqueued)
    /\ \A i \in 1..Len(hlog) :
          /\ hlog[i].before = (IF i = 1 THEN "Normal" ELSE hlog[i - 1].after)
          /\ hlog[i].branch = "exit" => i = Len(hlog)
    /\ current_mode = (IF hlog = << >> THEN "Normal" ELSE hlog[Len(hlog)].after)
    /\ running_flag = ~(\E i \in 1..Len(hlog) : hlog[i].branch = "exit")
    /\ \A i \in 1..(Len(hlog) - 2) :
          ( /\ Contains(enqueued[i], sChangeMode) /\ ~IsExit(enqueued[i])
            /\ Contains(enqueued[i + 1], sWhatIsIt)
            /\ ~Contains(enqueued[i + 1], sChangeMode) /\ ~IsExit(enqueued[i + 1])
            /\ IsExit(enqueued[i + 2])
            /\ hlog[i].before = "Normal" )
          => /\ hlog[i].branch = "toggle" /\ hlog[i].after = "Hazard"
             /\ hlog[i + 1].branch = "ondemand" /\ hlog[i + 1].before = "Hazard"
             /\ hlog[i + 2].branch = "exit" /\ ~running_flag

\* the three commands of C2 were in the queue together and have been handled
C2_Witness ==
    /\ Len(hlog) = 3
    /\ hlog[1].branch = "toggle" /\ hlog[1].before = "Normal"
    /\ hlog[2].branch = "ondemand"
    /\ hlog[3].branch = "exit"
    /\ lastStep.op = "exit"
    /\ ~running_flag

\* C3 (as claimed): after the exit command no detect_frame call is made, so
\* every detection was started while the running flag was still true
C3_NoDetectAfterExit ==
    lastStep.detect # << >> => lastStep.flag

\* C5: a periodic cycle in Hazard mode announces exactly the hazardous
\* detected labels (nothing when there is none); in Normal mode it
\* announces every detected label
C5_HazardFiltering ==
    lastStep.op = "periodic" =>
        LET d == lastStep.detect[1].detected
            h == SelectSeq(d, IsHazardous)
        IN /\ lastStep.mode = "Hazard" =>
                lastStep.spoke = (IF h = << >> THEN << >> ELSE <<Say("warning", h)>>)
           /\ (lastStep.mode = "Normal" /\ d # << >>) =>
                lastStep.spoke = <<Say("detected", d)>>

\* a Hazard cycle that saw a hazardous and a harmless label
C5_Witness ==
    /\ lastStep.op = "periodic"
    /\ lastStep.mode = "Hazard"
    /\ lastStep.detect[1].detected = <<"chair", "person">>
    /\ lastStep.spoke = <<Say("warning", <<"person">>)>>

\* C6 (as claimed): a Normal-mode periodic cycle whose detection returned no
\* label announces the 'nothing detected' message
C6_EmptyAnnounced ==
    ( /\ lastStep.op = "periodic"
      /\ lastStep.mode = "Normal"
      /\ lastStep.detect[1].detected = << >> )
    => lastStep.spoke = <<Say("nothing", << >>)>>

\* C7: two consecutive 'change mode' commands leave the mode that was
\* current before the first of them
C7_DoubleToggle ==
    \A i \in 1..(Len(hlog) - 1) :
        (IsToggleCmd(hlog[i].text) /\ IsToggleCmd(hlog[i + 1].text))
        => hlog[i + 1].after = hlog[i].before

\* a double toggle that started in Hazard mode
C7_Witness ==
    \E i \in 1..(Len(hlog) - 1) :
        /\ IsToggleCmd(hlog[i].text) /\ IsToggleCmd(hlog[i + 1].text)
        /\ hlog[i].before = "Hazard"
        /\ current_mode = "Hazard"

\* C10 (as claimed): no command is lost, so once both threads have ended
\* every enqueued command has been handled
C10_NoneLost ==
    (mainpc = "done" /\ dpc = "done") => Len(hlog) = Len(enqueued)

\* C10 (amended): every enqueued command is either handled once, held by
\* main, or still in the queue, in enqueue order; only commands behind a
\* handled exit command stay unhandled
C10_HandledAtMostOnce ==
    /\ HandledTexts \o Held \o cmd_queue = enqueued
    /\ (mainpc = "done" /\ cmd_queue # << >>) =>
          (hlog # << >> /\ hlog[Len(hlog)].branch = "exit")
    /\ (hlog # << >> /\ hlog[Len(hlog)].branch = "exit") => mainpc # "handle"

\* a command was left in the queue behind the exit command
C10_Witness ==
    /\ mainpc = "done"
    /\ Len(hlog) = 2
    /\ Len(cmd_queue) = 1

\* C11 (as claimed): the periodic detect_frame call is reached only by the
\* step in which this iteration finds cmd_queue empty, so it never runs
\* while commands that were queued together are still waiting
C11_PeriodicAfterEmpty ==
    [][(mainpc' = "periodic" /\ mainpc # "periodic")
          => (mainpc = "inner" /\ cmd_queue = << >>)]_vars

\* C12: running_flag is true from startup, changes only in the exit branch
\* of the main loop, from true to false, and that branch runs at most once
C12_FlagSetOnce ==
    /\ running_flag = TRUE
    /\ [][/\ (running_flag' # running_flag) =>
               (running_flag /\ ~running_flag' /\ mainpc = "handle" /\ IsExit(command))
          /\ (Len(hlog') > Len(hlog) /\ hlog'[Len(hlog')].branch = "exit") =>
               running_flag]_vars

\* the main loop has ended on an exit command while a second exit command
\* was still in the queue
C12_Witness ==
    /\ mainpc = "done"
    /\ ~running_flag
    /\ cmd_queue # << >>
    /\ IsExit(Head(cmd_queue))

\* C13: current_mode changes only in the step in which the main loop
\* handles a command that contains 'change mode' and no exit phrase
C13_ModeFrame ==
    [][(current_mode' # current_mode) =>
          /\ mainpc = "handle"
          /\ Contains(command, sChangeMode)
          /\ \A k \in 1..Len(EXIT_PHRASES) : ~Contains(command, EXIT_PHRASES[k])]_vars

\* after a toggle to Hazard, an on-demand query, a periodic cycle and an
\* exit command that also says 'change mode' have left the mode alone
C13_Witness ==
    /\ Len(hlog) = 3
    /\ hlog[1].branch = "toggle"
    /\ hlog[2].branch = "ondemand"
    /\ hlog[3].branch = "exit" /\ Contains(hlog[3].text, sChangeMode)
    /\ lastStep.op = "periodic"
    /\ current_mode = "Hazard"

\* C15 (as claimed): whatever happens while recording or transcribing, the
\* dispatcher goes on to enqueue a command and stays in its loop
C15_TranscribeFailureAbsorbed ==
    [][(dpc = "transcribe" /\ dpc' # "transcribe") => dpc' = "put"]_vars

\* C16 (as claimed): no failure inside detect_frame reaches the main loop
\* as an exception, so the main thread is never ended by one
C16_DetectNeverRaises == mainpc # "crashed"

\* C18 (as claimed): a listener.detected() call that fails ends the
\* dispatcher thread; it is never followed by another pass of its loop
C18_AcquireFailureFatal ==
    [][(dpc = "listen" /\ dpc' # "listen") => dpc' \in {"stop", "dead"}]_vars

\* how far the main thread is from the end of main() once the flag is false
Rank(pc) ==
    CASE pc = "periodic" -> 3
      [] pc = "sleep"    -> 2
      [] pc = "outer"    -> 1
      [] pc \in {"done", "crashed"} -> 0
      [] OTHER -> 4

\* C22: the main loop ends only after running_flag became false; once an
\* exit command has been handled the main thread handles no further
\* command and every step it takes brings it closer to the end of main():
\* the rest of this iteration, then the outer test, which leaves the loop
C22_MainLoopTermination ==
    /\ [](mainpc = "done" => ~running_flag)
    /\ [](~running_flag => Rank(mainpc) <= 3)
    /\ [][(~running_flag /\ mainpc' # mainpc) => Rank(mainpc') < Rank(mainpc)]_vars

\* the main loop has ended after the exit command, having finished the
\* iteration in which it took it
C22_Witness ==
    /\ mainpc = "done"
    /\ ~running_flag
    /\ hlog # << >>
    /\ hlog[Len(hlog)].branch = "exit"
    /\ lastStep.op = "periodic"

HasExitPhrase(c) == \E k \in 1..Len(EXIT_PHRASES) : Contains(c, EXIT_PHRASES[k])

\* C28 (as claimed): every command that contains 'what is it' is answered by
\* one on-demand detect_frame call in Hazard mode and by nothing in Normal
\* mode
C28_WhatIsItByMode ==
    \A i \in 1..Len(hlog) :
        Contains(hlog[i].text, sWhatIsIt) =>
            /\ hlog[i].before = "Hazard" => hlog[i].branch \in {"ondemand", "raise"}
            /\ hlog[i].before = "Normal" => hlog[i].branch = "ignore"

\* C28 (amended): a command that contains 'what is it' and neither an exit
\* phrase nor 'change mode' is answered by exactly one detect_frame call and
\* one announcement in Hazard mode, and by no detection and no announcement
\* in Normal mode
C28_PlainWhatIsItByMode ==
    /\ \A i \in 1..Len(hlog) :
          ( /\ Contains(hlog[i].text, sWhatIsIt)
            /\ ~HasExitPhrase(hlog[i].text)
            /\ ~Contains(hlog[i].text, sChangeMode) )
          => /\ hlog[i].before = "Hazard" => hlog[i].branch \in {"ondemand", "raise"}
             /\ hlog[i].before = "Normal" => hlog[i].branch = "ignore"
    /\ lastStep.op = "ondemand" =>
          /\ lastStep.mode = "Hazard"
          /\ Len(lastStep.detect) = 1
          /\ Len(lastStep.spoke) = 1
    /\ lastStep.op = "ignore" => (lastStep.detect = << >> /\ lastStep.spoke = << >>)

\* 'what is it?' has been handled once in Normal mode, where it was dropped,
\* and once in Hazard mode, where it has just been answered
C28_Witness ==
    /\ Len(hlog) = 3
    /\ hlog[1].branch = "ignore" /\ Contains(hlog[1].text, sWhatIsIt)
    /\ hlog[2].branch = "toggle"
    /\ hlog[3].branch = "ondemand"
    /\ lastStep.op = "ondemand"

\* C29 (as claimed): an on-demand query in Hazard mode whose detection
\* returned no label announces the 'nothing detected' message
C29_OnDemandEmptyAnnounced ==
    (lastStep.op = "ondemand" /\ lastStep.detect[1].detected = << >>)
    => lastStep.spoke = <<Say("nothing", << >>)>>

\* C30: every handled command took the one branch its text selects in the
\* order exit phrase, 'change mode', 'what is it' (in Hazard mode), else
\* none; a command with an exit phrase and 'change mode' clears the running
\* flag and leaves the mode as it was
C30_BranchPriority ==
    \A i \in 1..Len(hlog) :
        LET c == hlog[i].text
            expected ==
                IF HasExitPhrase(c) THEN {"exit"}
                ELSE IF Contains(c, sChangeMode) THEN {"toggle"}
                ELSE IF Contains(c, sWhatIsIt) /\ hlog[i].before = "Hazard"
                     THEN {"ondemand", "raise"}
                ELSE {"ignore"}
        IN /\ hlog[i].branch \in expected
           /\ hlog[i].branch = "exit" => (hlog[i].after = hlog[i].before /\ ~running_flag)
           /\ hlog[i].branch = "toggle" => hlog[i].after # hlog[i].before

\* the only command handled contained an exit phrase and 'change mode': the
\* main loop has ended in the mode it started in
C30_Witness ==
    /\ Len(hlog) = 1
    /\ hlog[1].branch = "exit"
    /\ Contains(hlog[1].text, sChangeMode)
    /\ current_mode = "Normal"
    /\ mainpc = "done"

\* the latest command handled took the exit branch
ExitHandled == hlog # << >> /\ hlog[Len(hlog)].branch = "exit"

\* C31: once a command has taken the exit branch, no command is taken from
\* the queue or handled any more, the mode stays, and no step toggles,
\* detects on demand or answers a command
C31_NothingAfterExit ==
    [][ExitHandled =>
          /\ hlog' = hlog
          /\ current_mode' = current_mode
          /\ Len(cmd_queue') >= Len(cmd_queue)
          /\ mainpc' \notin {"get", "handle"}
          /\ lastStep'.op \notin {"toggle", "ondemand", "ignore"}]_vars

\* main() has ended after an exit command with a command still queued behind it
C31_Witness ==
    /\ ExitHandled
    /\ mainpc = "done"
    /\ cmd_queue # << >>

\* the command in hand contains none of the known phrases
KnowsNoPhrase(c) ==
    /\ ~HasExitPhrase(c)
    /\ ~Contains(c, sChangeMode)
    /\ ~Contains(c, sWhatIsIt)

\* C32: while such a command is being handled neither the mode nor the flag
\* changes, and the handling step detects nothing, speaks nothing and goes
\* back to the queue test
C32_UnknownIsNoOp ==
    [][(mainpc = "handle" /\ KnowsNoPhrase(command)) =>
          /\ current_mode' = current_mode
          /\ running_flag' = running_flag
          /\ (mainpc' # mainpc) =>
                /\ mainpc' = "inner"
                /\ lastStep'.op = "ignore"
                /\ lastStep'.detect = << >>
                /\ lastStep'.spoke = << >>]_vars

\* an empty command was handled in Hazard mode and dropped
C32_Witness ==
    /\ lastStep.op = "ignore"
    /\ mainpc = "inner"
    /\ command = << >>
    /\ current_mode = "Hazard"

\* C33 (as claimed): the dispatcher goes detection, stop_speech, recording
\* and transcription, put, in that order and without leaving the sequence;
\* a command is enqueued only by the put, and it is the lower-cased
\* transcript
C33_DetectStopTranscribePut ==
    [][/\ (dpc' # dpc /\ dpc' = "stop") => dpc = "listen"
       /\ (dpc' # dpc /\ dpc' = "transcribe") => dpc = "stop"
       /\ (dpc' # dpc /\ dpc' = "put") =>
             (dpc = "transcribe" /\ \E t \in Transcripts : cmd' = Lower(t))
       /\ (enqueued' # enqueued) =>
             (dpc = "put" /\ enqueued' = Append(enqueued, cmd)
                /\ cmd_queue' = Append(cmd_queue, cmd))
       /\ (dpc = "stop" /\ dpc' # dpc) => dpc' = "transcribe"
       /\ (dpc = "transcribe" /\ dpc' # dpc) => dpc' = "put"
       /\ (dpc = "put" /\ dpc' # dpc) => enqueued' # enqueued]_vars

\* C39: every step that runs detect_frame is a step of the main thread out
\* of the command handler or the periodic branch, it runs it once, and the
\* dispatcher does not move in it
C39_DetectOnMainOnly ==
    /\ [](Len(lastStep.detect) <= 1)
    /\ [][(lastStep' # lastStep /\ lastStep'.detect # << >>) =>
             /\ mainpc \in {"handle", "periodic"}
             /\ mainpc' # mainpc
             /\ lastStep'.op = (IF mainpc = "handle" THEN "ondemand" ELSE "periodic")
             /\ dpc' = dpc /\ cmd' = cmd]_vars

\* a periodic detection ran after an on-demand one while the dispatcher
\* was serving a wake word
C39_Witness ==
    /\ lastStep.op = "periodic"
    /\ lastStep.detect # << >>
    /\ \E i \in 1..Len(hlog) : hlog[i].branch = "ondemand"
    /\ dpc = "transcribe"

\* C40: whenever the main thread is at cmd_queue.get() the queue holds a
\* command, so the get returns at once
C40_GetNeverBlocks ==
    mainpc = "get" => cmd_queue # << >>

\* the main thread is at the get while the dispatcher is about to put
C40_Witness ==
    /\ mainpc = "get"
    /\ dpc = "put"
    /\ Len(cmd_queue) = 1

-----------------------------------------------------------------------------
(* Properties of the speech controller (SpecAudio)                         *)

\* C1 (as claimed): at no point are two piper sessions active
C1_AtMostOneSpeech == Cardinality(running) <= 1

\* the stop_speech call of thread t found no session active and no speak
\* has started one since
QuietStop(t) == stopInfo[t].idle /\ ~stopInfo[t].newer

\* C8: a stop_speech call made when no session is active terminates
\* nothing, does not wait the grace interval and leaves current_process
\* None, on every call
C8_IdleStopIsNoOp ==
    [][\A t \in Bargers :
         (QuietStop(t) /\ apc'[t] # apc[t]) =>
            /\ apc'[t] \notin {"st_term", "st_sleep"}
            /\ running' = running
            /\ apc'[t] = "sp_popen" => current_process' = NoProc]_vars

\* a stop_speech call found the stale handle of a session that had already
\* ended and is about to return
C8_Witness ==
    \E t \in Bargers :
        /\ apc[t] = "st_clear"
        /\ QuietStop(t)
        /\ current_process # NoProc
        /\ current_process \notin running

\* C9 (as claimed): a session started by a concurrent speak while
\* stop_speech runs is neither terminated or killed by it nor loses its
\* handle when stop_speech clears current_process
C9_OnlyOwnSession ==
    [][\A t \in Bargers :
         (stopInfo[t].newer /\ apc'[t] # apc[t]) =>
            /\ running' = running
            /\ apc'[t] = "sp_popen" => ~Active(current_process)]_vars


\* C17: a speak call in which starting or driving the session raised
\* returns to its caller through the except branch, and current_process is
\* None when it returns
C17_SpeakFailureAbsorbed ==
    [][\A t \in Threads :
         (apc[t] = "sp_exc" /\ apc'[t] # apc[t]) =>
            /\ apc'[t] = "idle"
            /\ current_process' = NoProc]_vars

\* a speak call failed while driving a session (aplay could not be started
\* or the pipe broke) whose piper process is still running and still named
\* by the handle
C17_Witness ==
    \E t \in Threads :
        /\ apc[t] = "sp_exc"
        /\ current_process \in running

\* C37 (as claimed): a speak starts its session only when no other
\* session is active, and the end of a speak clears the handle only when
\* the session it names has ended, so a running session always has the
\* handle
C37_RunningHasHandle ==
    [][\A t \in Threads :
         /\ (AtSpeak(t) /\ apc'[t] = "sp_aplay") => ~Active(current_process)
         /\ (apc[t] = "sp_clear" /\ apc'[t] = "idle") => ~Active(current_process)]_vars

\* C34 (as claimed): when a speak comes to its end, the session that speak
\* started has ended
C34_ReturnsAfterOwnSession ==
    [][\A t \in Threads :
         (apc[t] = "sp_clear" /\ apc'[t] = "idle") => own[t] = NoProc]_vars

-----------------------------------------------------------------------------
(* Properties of the non-blocking listener (SpecNB)                        *)

\* one pass over a whole recording: some frame cut at a multiple of
\* FrameLength is a match
OnePass(x) ==
    \E k \in 0..((Len(x) \div FrameLength) - 1) :
        Process(SubSeq(x, k * FrameLength + 1, (k + 1) * FrameLength)) >= 0

RECURSIVE Flatten(_)
Flatten(fs) == IF fs = << >> THEN << >> ELSE Head(fs) \o Flatten(Tail(fs))

\* C4: however the samples are split into chunks, some call has returned
\* True exactly when one pass over all samples fed so far finds a match, and
\* the frames processed followed by the buffer are exactly those samples
C4_FrameBoundaryPersistence ==
    /\ everTrue <=> OnePass(Convert(consumed))
    /\ Flatten(frames) \o buffer = Convert(consumed)

\* a call returned True on a frame that began in an earlier chunk
C4_Witness ==
    /\ lastCall.ret
    /\ lastCall.carried
    /\ lastCall.nframes = 1
    /\ nbpc = "idle"

C24_OpenOnce ==
    /\ [](engines <= 1 /\ streams <= 1)
    /\ [][(nbpc = "idle" /\ nbpc' = "get" /\ porcupine # None) =>
             UNCHANGED <<porcupine, stream, engines, streams, audio_queue, buffer>>]_vars

\* a later call has entered with a chunk waiting and a partial frame kept
C24_Witness ==
    /\ nbpc = "get"
    /\ engines = 1
    /\ streams = 1
    /\ audio_queue # << >>
    /\ buffer # << >>

\* C27: a call that finds the queue empty returns False at once and leaves
\* buffer, engine, stream and the frames processed so far as they were
C27_TimeoutIsNoEvent ==
    [][(nbpc = "get" /\ audio_queue = << >> /\ nbpc' # nbpc) =>
          /\ nbpc' = "idle"
          /\ lastCall'.ret = FALSE
          /\ UNCHANGED <<buffer, porcupine, stream, engines, streams, frames,
                         audio_queue>>]_vars

\* a call timed out while a partial frame was waiting in the buffer
C27_Witness ==
    /\ nbpc = "idle"
    /\ ~lastCall.took
    /\ porcupine # None
    /\ buffer # << >>

-----------------------------------------------------------------------------
(* Properties of the bootstrap threads (SpecBoot)                          *)

\* play_full_instructions has returned (or was never called) and main() is
\* starting the dispatcher or running its loop
InstructionsOver == bootpc \in {"start_disp", "main_loop", "main_exit", "main_done"}

\* C19 (as claimed): once play_full_instructions has returned, the
\* skip_listener thread has stopped, or has heard 'skip it' and is on its
\* way out of its loop; it is not waiting for a wake word and calls neither
\* stop_speech nor speak_text_and_transcribe
C19_SkipListenerStopped ==
    InstructionsOver =>
        \/ skpc \in {"none", "done", "dead", "killed"}
        \/ stop_flag /\ skpc = "loop"

\* C20 (as claimed): the check thread of play_intro is never inside
\* detected_nonblocking while the dispatcher is inside detected() on the
\* same listener
C20_ListenerOneUser ==
    ~(chkpc = "call" /\ wwpc = "listen")

\* C21 (as claimed): once running_flag is false, a skip listener or
\* dispatcher that comes to the test of its loop leaves the loop
C21_ThreadsObserveFlag ==
    [][~running_flag =>
          /\ (skpc = "loop" /\ skpc' # skpc) => skpc' \in {"done", "killed"}
          /\ (wwpc = "loop" /\ wwpc' # wwpc) => wwpc' \in {"done", "killed"}]_vars

\* C23 (as claimed): play_intro returns False only when the background
\* check has not detected the trigger phrase
C23_FalseOnlyIfNotHeard ==
    [][(bootpc = "intro_wait" /\ bootpc' = "start_disp") => ~detected_flag]_vars

\* C35 (as claimed): no instruction line is started while the skip flag is
\* set
C35_NoLineAfterSkip ==
    [][(line' > line) => ~stop_flag]_vars

\* C35 (amended): a loop test that finds the skip flag set starts no line
\* and ends the loop, a line is started only after a test that found the
\* flag clear, the flag once set stays set, and the closing announcement
\* follows the flag as the closing test finds it
C35_SkipSeenAtTest ==
    [][/\ (bootpc = "instr_for" /\ stop_flag /\ bootpc' # bootpc) =>
             (bootpc' = "instr_end" /\ line' = line)
       /\ (bootpc' = "instr_speak" /\ bootpc # bootpc') =>
             (bootpc = "instr_for" /\ ~stop_flag)
       /\ (line' # line /\ bootpc # "instructions") =>
             (bootpc = "instr_speak" /\ line' = line + 1)
       /\ stop_flag => stop_flag'
       /\ (bootpc = "instr_end" /\ bootpc' # bootpc) =>
             bootpc' = (IF stop_flag THEN "say_skipping" ELSE "say_end")]_vars

\* 'skip it' was heard part-way: the loop ended early and the closing
\* message is 'Skipping instructions.'
C35_Witness ==
    /\ bootpc = "say_skipping"
    /\ stop_flag
    /\ line > 1
    /\ line <= NumInstructions

\* C38 (as claimed): the listener main() shares between play_intro and the
\* dispatcher never has two capture streams open at a time
C38_OneStreamOpen ==
    streams <= 1

-----------------------------------------------------------------------------
(* Properties of the blocking listener (SpecRun)                           *)

\* C25 (as claimed): whenever run_once is not running, every engine and
\* every stream it created has been released
C25_AllReleased ==
    runpc = "idle" => (engines = 0 /\ streams = 0)

\* C26: run_once and a listener polled through detected_nonblocking with
\* the same chunks hold the same buffer, have cut the same frames, and
\* run_once ends on a match exactly at the chunk where the poll returns True
C26_SamePath ==
    /\ shadow.buffer = buffer
    /\ shadow.frames = frames
    /\ shadow.ret = lastCall.ret
    /\ (runpc = "cleanup") => shadow.ret

\* run_once matched on the second frame, which began in an earlier chunk
C26_Witness ==
    /\ runpc = "cleanup"
    /\ lastCall.carried
    /\ Len(frames) >= 2
    /\ shadow.ret

\* C36 (as claimed): whenever detected() is not running, speak_alert is the
\* method of the class
C36_AlertRestored ==
    runpc = "idle" => speak_alert = "method"

====
